---- MODULE Spec2Model ----
(***************************************************************************)
(* EyeTrackerCursor (src/eyecursorfinal.py): the blink state machine       *)
(* (handle_blink), the interaction-mode cycle (switch_mode), the key       *)
(* handling of the run loop, calibration (calibrate), the saved profile    *)
(* (save_models, load_models), cursor smoothing (smooth_movement) and      *)
(* scrolling (handle_scroll).                                              *)
(*                                                                         *)
(* Units.  Time is counted in hundredths of a second, so 0.05 s is 5,      *)
(* 0.3 s is 30 and 1.0 s is 100.  An eye-aspect-ratio (EAR) is counted in  *)
(* hundredths; the average of two EARs is kept doubled (left + right), so  *)
(* every comparison of the code is an exact integer comparison.  A speed   *)
(* is counted in hundredths of a second (0.05 is 5).  Floating-point       *)
(* rounding of the code's time and EAR arithmetic is not modelled.         *)
(* A screen coordinate is an exact fraction <<numerator, denominator>>     *)
(* with a positive denominator, in lowest terms; the screen is             *)
(* ScreenWidth x ScreenHeight.  A feature vector has FeatureDims whole     *)
(* components.                                                             *)
(***************************************************************************)
EXTENDS Integers, Sequences, FiniteSets, TLC

\* ---------------------------------------------------------------- bounds

\* The number of frames with landmarks of a run in absolute blink mode.
MaxFrames == 4

\* The number of frames with landmarks of a run in relative blink mode.
MaxRelFrames == 32

\* The number of frames of a relative-mode run whose eyes are not fully open.
MaxLowFrames == 1

\* The number of calibrations started from the run loop ('c' or 'f').
MaxRecalibrations == 1

\* The number of method calls a caller of the class makes before run.
MaxCalls == 3

\* The number of calibrate calls that are followed target by target.
MaxFollowedCalls == 1

\* The largest number of frames with landmarks one calibration target collects.
MaxPointFrames == 12

\* The number of components of a feature vector.
FeatureDims == 2

\* The frames without landmarks in the sampling of one target.
MaxMissingFrames == 2

\* The largest num_points a calibrate call is given.
MaxNumPoints == 101

\* ------------------------------------------------------ program constants

\* self.blink_threshold = 0.2
BlinkThresholdInit == 20

\* self.blink_cooldown = 0.05
BlinkCooldown == 5

\* self.long_blink_threshold = 1.0
LongBlinkThreshold == 100

\* if blink_duration < 0.3
ShortBlinkLimit == 30

\* if len(self.ear_history) > 30
EarHistoryCap == 30

\* if len(self.ear_history) >= 10
EarHistoryMin == 10

\* np.percentile(self.ear_history, 80)
BaselinePercentile == 80

\* the 10 x 10 grid of x_points and y_points
GridPoints == 100

\* if len(self.calibration_data) >= 6
MinCalibrationSamples == 6

\* if len(point_data) > 10
MinPointFrames == 10

\* self.smoothing_factor = 0.8, in hundredths
SmoothingFactor == 80

\* center_region = 0.3, in hundredths
CenterRegion == 30

\* scroll_speed_factor = 0.5, in hundredths
ScrollSpeedFactor == 50

\* The 20 of int(20 * distance_from_center * scroll_speed_factor).
ScrollGain == 20

\* self.screen_width, self.screen_height = pyautogui.size(): a screen that
\* is wider than high.
ScreenWidth == 20

ScreenHeight == 10

\* An optional value is a sequence of at most one element: None (or an
\* attribute that was never assigned) is the empty one.
None == <<>>

Unset == <<>>

Some(v) == <<v>>

\* handle_blink returning None
NoEvent == "None"

\* modes = ["cursor", "scroll", "click", "drag"]
modes == <<"cursor", "scroll", "click", "drag">>

ModeSet == {modes[i] : i \in 1..Len(modes)}

VARIABLES
    phase,                    \* where __main__ is: "setup", "fitted", "blink_done",
                              \* "saved", "run" (inside the loop of run),
                              \* "stopped", or "crashed" (left by an exception)
    now,                      \* the last reading of time.time()
    mode,                     \* self.mode
    cursor_speed,             \* self.cursor_speed
    blink_threshold,          \* self.blink_threshold, doubled
    blink_relative_mode,      \* self.blink_relative_mode, Unset until assigned
    blink_relative_threshold, \* self.blink_relative_threshold as <<num, den>>
    ear_history,              \* self.ear_history, Unset until created
    blink_start_time,         \* self.blink_start_time
    last_blink_time,          \* self.last_blink_time
    dragging,                 \* self.dragging, Unset until assigned
    is_blink,                 \* is_blink as the last handle_blink call computed it
    ret,                      \* what the last handle_blink call returned
    acts,                     \* the pyautogui calls the last step issued, in order
    frames,                   \* the handle_blink calls made so far
    ear_log,                  \* every average EAR the relative branch was handed, in order
    cap_open,                 \* self.cap is set and self.cap.isOpened()
    calibration_data,         \* len(self.calibration_data)
    calibration_points,       \* len(self.calibration_points)
    model_x,                  \* self.model_x: None, or Some(<<k, n>>) when it comes
                              \* from the k-th fit, on n calibration samples
    model_y,                  \* self.model_y, likewise
    scaler,                   \* self.scaler: None while it is not fitted, or
                              \* Some(<<k, n>>) likewise
    fits,                     \* the fits done so far
    recalibrations,           \* the calibrations started from the run loop so far
    last_op,                  \* the operation that ran last and, for handle_blink,
                              \* the branch it took
    file_x,                   \* <prefix>_x.pkl: None when absent, or Some(content)
    file_y,                   \* <prefix>_y.pkl
    file_scaler,              \* <prefix>_scaler.pkl
    file_blink,               \* blink_calibration.pkl
    call_ret,                 \* what the last calibrate, save_models or load_models
                              \* call returned: None, Some(TRUE) or Some(FALSE)
    calls,                    \* the method calls made on the object before run
    prev_x,                   \* self.prev_x
    prev_y,                   \* self.prev_y
    x_pred,                   \* the raw prediction of the last frame, None when
    y_pred,                   \* the last step was not a frame
    moved,                    \* the (x, y) the last frame passed to pyautogui.moveTo
    scroll_ret,               \* what handle_scroll returned in the last frame
    scroll_calls,             \* the amounts the last frame passed to pyautogui.scroll
    cal_pc,                   \* where a calibrate call followed target by target
                              \* is: "idle", "targets" or "fit"
    point_idx,                \* the targets that call has finished
    point_data,               \* point_data of the target finished last
    distances,                \* distances of that target, times 4
    keep_indices,             \* keep_indices of that target, as a set
    last_sample,              \* the avg_features appended for it, as
                              \* <<per-dimension sums, number of samples>>
    cam_frames,               \* the frames read while that target was sampled:
                              \* <<landmarks found, features>> of each
    features,                 \* what extract_eye_features returned last
    ear_args,                 \* the (left_ear, right_ear) read from it last
    screen,                   \* <<self.screen_width, self.screen_height>>
    requested,                \* num_points of the calibrate call whose target
                              \* list is followed, None before it
    targets,                  \* self.calibration_points as that call built it
    visited                   \* the targets its loop has moved the cursor to

vars == <<phase, now, mode, cursor_speed, blink_threshold, blink_relative_mode,
          blink_relative_threshold, ear_history, blink_start_time, last_blink_time,
          dragging, is_blink, ret, acts, frames, ear_log, cap_open,
          calibration_data, calibration_points, model_x, model_y, scaler, fits,
          recalibrations, last_op, file_x, file_y, file_scaler, file_blink, call_ret, calls,
          prev_x, prev_y, x_pred, y_pred, moved, scroll_ret, scroll_calls,
          cal_pc, point_idx, point_data, distances, keep_indices, last_sample,
          cam_frames, features, ear_args, screen, requested, targets, visited>>

\* What a blink calibration sets.
blink_params == <<blink_threshold, blink_relative_mode, blink_relative_threshold>>

\* What handle_blink reads and writes besides the mode and the outputs.
blink_state == <<ear_history, blink_start_time, last_blink_time, dragging,
                 is_blink, frames, ear_log>>

\* The regressors and the scaler, with the count of fits.
gaze_model == <<model_x, model_y, scaler, fits>>

\* What calibrate writes.
calib_state == <<cap_open, calibration_data, calibration_points, model_x,
                 model_y, scaler, fits, recalibrations>>

\* The files of the profile in self.data_dir.
profile == <<file_x, file_y, file_scaler, file_blink>>

\* What one calibrate call followed target by target keeps.
target_state == <<cal_pc, point_idx, point_data, distances, keep_indices,
                  last_sample, cam_frames>>

\* The feature vector under the eyes of its readers.
feature_state == <<features, ear_args>>

\* The screen and the target list of a calibrate call.
grid_state == <<screen, requested, targets, visited>>

\* What a frame's cursor move and scroll write.
gaze_state == <<prev_x, prev_y, x_pred, y_pred, moved, scroll_ret, scroll_calls>>

\* ---------------------------------------------------------------- inputs

\* The (left, right) EAR of a frame in an absolute-mode run: open, closed,
\* and one eye closed (the average is then exactly the default threshold).
EarPairs == {<<30, 30>>, <<10, 10>>, <<10, 30>>}

\* The (left, right) EAR of a frame in a relative-mode run: open, shut
\* (EAR 0), and slightly narrowed.
RelEarPairs == {<<30, 30>>, <<0, 0>>, <<27, 30>>}

\* The time between two frames with landmarks.
TimeSteps == {2, 3, 29, 30, 99, 100}

\* The same, for the runs that also recalibrate.
RunTimeSteps == {3, 100}

\* The same, for a relative-mode run.
RelTimeSteps == {3}

\* (avg_baseline, avg_blink_min) pairs of a blink calibration that are at
\* least 0.05 apart: the absolute threshold is used.
AbsCalibrations == {<<34, 10>>}

\* Pairs closer than 0.05: relative mode is switched on.
RelCalibrations == {<<30, 26>>}

\* The numbers of target points of one calibration that collect enough frames.
AcceptedCounts == {0, 5, 6}

\* The (left, right) EAR of the frames of a run without blinks.
OpenEarPairs == {<<30, 30>>}

\* The prediction of a frame when the gaze rests on the middle of the screen.
ScreenCenter == <<ScreenWidth \div 2, ScreenHeight \div 2>>

\* The largest y of a calibration target: int(self.screen_width * 0.95), the
\* last entry of y_points.
LastTargetY == (ScreenWidth * 95) \div 100

\* The (x_pred, y_pred) of a frame: the middle of the screen, the first
\* calibration target, the last one, and two points above and below the
\* middle.  The regressors answer within the targets they were fit on.
GazePredictions ==
    {ScreenCenter, <<ScreenWidth \div 10, ScreenHeight \div 10>>,
     <<(ScreenWidth * 95) \div 100, LastTargetY>>,
     <<ScreenWidth \div 2, 3>>, <<ScreenWidth \div 2, 8>>}

\* What pyautogui.size() may give: the screen of the other specifications,
\* full HD and a laptop panel, the same turned upright, a nearly square
\* screen and a single pixel.
Geometries ==
    {<<ScreenWidth, ScreenHeight>>, <<ScreenHeight, ScreenWidth>>,
     <<1920, 1080>>, <<1080, 1920>>, <<1366, 768>>, <<100, 96>>, <<1, 1>>}

\* The num_points of a calibrate call: none, one, the 9 and 16 of the keys,
\* the default of 100 and more than the grid holds.
NumPointsChoices == {0, 1, 9, 16, GridPoints, MaxNumPoints}

\* The regressors and scaler an earlier session fit and saved.
EarlierFit == <<<<0, MinCalibrationSamples>>>>

\* The profile directory when the program starts: empty, the three model
\* files without blink_calibration.pkl, or all four files.
Profiles ==
    {<<<<>>, <<>>, <<>>, <<>>>>,
     <<<<EarlierFit>>, <<EarlierFit>>, <<EarlierFit>>, <<>>>>,
     <<<<EarlierFit>>, <<EarlierFit>>, <<EarlierFit>>,
       <<<<2 * BlinkThresholdInit + 4, FALSE, <<1, 5>>>>>>>>}

\* ------------------------------------------------------------ switch_mode

IndexOf(m) == CHOOSE i \in 1..Len(modes) : modes[i] = m

\* switch_mode without the wrap-around: the last mode stays.
NextModeNoWrap(m) ==
    IF IndexOf(m) = Len(modes) THEN m ELSE modes[IndexOf(m) + 1]

\* modes[(modes.index(self.mode) + 1) % len(modes)]
NextMode(m) == modes[(((IndexOf(m) - 1) + 1) % Len(modes)) + 1]

\* the if/elif chain that follows the assignment of self.mode
ModeSpeed(m) ==
    IF m = "cursor" THEN 5
    ELSE IF m = "scroll" THEN 2
    ELSE IF m = "click" THEN 4
    ELSE IF m = "drag" THEN 3
    ELSE cursor_speed

\* self.switch_mode(): the new mode and its speed
switch_mode ==
    /\ mode' = NextMode(mode)
    /\ cursor_speed' = ModeSpeed(NextMode(mode))

\* ----------------------------------------------------------- handle_blink

\* avg_ear = (left_ear + right_ear) / 2, doubled
AvgEar(left_ear, right_ear) == left_ear + right_ear

\* The k-th smallest value of a sequence (k from 1): sorted(h)[k - 1].
KthSmallest(h, k) ==
    CHOOSE v \in {h[i] : i \in 1..Len(h)} :
        /\ Cardinality({i \in 1..Len(h) : h[i] < v}) < k
        /\ k <= Cardinality({i \in 1..Len(h) : h[i] <= v})

\* np.percentile(h, q) by linear interpolation, times 100: the rank
\* q * (n - 1) / 100 has the whole part lo and the hundredths r.
Percentile100(h, q) ==
    LET rank == q * (Len(h) - 1)
        lo == rank \div 100
        r == rank % 100
        below == KthSmallest(h, lo + 1)
        above == IF r = 0 THEN below ELSE KthSmallest(h, lo + 2)
    IN 100 * below + r * (above - below)

\* The history evicting its newest value, pop() for pop(0).
AppendHistoryDropNewest(h, avg_ear) ==
    LET grown == Append(IF h = Unset THEN <<>> ELSE h[1], avg_ear)
    IN IF Len(grown) > EarHistoryCap THEN SubSeq(grown, 1, Len(grown) - 1) ELSE grown

\* self.ear_history.append(avg_ear); pop(0) once it holds more than 30
AppendHistory(h, avg_ear) ==
    LET grown == Append(IF h = Unset THEN <<>> ELSE h[1], avg_ear)
    IN IF Len(grown) > EarHistoryCap THEN Tail(grown) ELSE grown

\* The relative branch eligible one sample early.
RelativeIsBlinkEarly(h, avg_ear, thr) ==
    IF Len(h) >= EarHistoryMin - 1
    THEN avg_ear * 100 * thr[2] < Percentile100(h, BaselinePercentile) * (thr[2] - thr[1])
    ELSE FALSE

\* The relative branch: is_blink from the history that holds the sample.
RelativeIsBlink(h, avg_ear, thr) ==
    IF Len(h) >= EarHistoryMin
    THEN avg_ear * 100 * thr[2] < Percentile100(h, BaselinePercentile) * (thr[2] - thr[1])
    ELSE FALSE

\* hasattr(self, 'blink_relative_mode') and self.blink_relative_mode
UsesRelativeMode == blink_relative_mode # Unset /\ blink_relative_mode[1]

\* is_blink, as the first half of handle_blink computes it
IsBlink(avg_ear) ==
    IF UsesRelativeMode
    THEN RelativeIsBlink(AppendHistory(ear_history, avg_ear), avg_ear,
                         blink_relative_threshold)
    ELSE avg_ear < blink_threshold

\* The cooldown compared with >= for >.
CooldownOverInclusive(current_time) == current_time - last_blink_time >= BlinkCooldown

\* current_time - self.last_blink_time > self.blink_cooldown
CooldownOver(current_time) == current_time - last_blink_time > BlinkCooldown

\* The short class compared with <= for <.
IsShortInclusive(blink_duration) == blink_duration <= ShortBlinkLimit

\* if blink_duration < 0.3
IsShort(blink_duration) == blink_duration < ShortBlinkLimit

\* elif 0.3 <= blink_duration < self.long_blink_threshold
IsMedium(blink_duration) ==
    ShortBlinkLimit <= blink_duration /\ blink_duration < LongBlinkThreshold

\* not hasattr(self, 'dragging') or not self.dragging
NotDragging == dragging = Unset \/ ~dragging[1]

\* The drag flag read as never set.
DraggingValueStuck == FALSE

\* getattr(self, 'dragging', False)
DraggingValue == IF dragging = Unset THEN FALSE ELSE dragging[1]

\* if self.mode == "cursor" or self.mode == "click": the short blink
ShortClickMode == mode = "cursor" \/ mode = "click"

\* The medium blink answered in cursor mode only.
MediumClickModeCursorOnly == mode = "cursor"

\* if self.mode == "cursor" or self.mode == "click": the medium blink
MediumClickMode == mode = "cursor" \/ mode = "click"

\* Both calls issued by one toggle.
DragCallBoth == <<"mouseDown", "mouseUp">>

\* pyautogui.mouseDown() if ... else pyautogui.mouseUp()
DragCall == IF NotDragging THEN <<"mouseDown">> ELSE <<"mouseUp">>

\* The event naming the mode before the switch.
ModeSwitchEventOld(new_mode) == "mode_switch_" \o mode

\* return f"mode_switch_{new_mode}"
ModeSwitchEvent(new_mode) == "mode_switch_" \o new_mode

\* The branch taken once the cooldown is over: the pyautogui call, the
\* returned event, and the change of mode and of the drag flag.
AcceptBlink(blink_duration) ==
    IF IsShort(blink_duration)
    THEN /\ last_op' = "blink_short"
         /\ IF ShortClickMode
            THEN /\ acts' = <<"click">>
                 /\ ret' = "click"
                 /\ UNCHANGED <<mode, cursor_speed, dragging>>
            ELSE IF mode = "drag"
            THEN /\ acts' = DragCall
                 /\ dragging' = Some(~DraggingValue)
                 /\ ret' = "drag_toggle"
                 /\ UNCHANGED <<mode, cursor_speed>>
            ELSE /\ acts' = <<>>
                 /\ ret' = NoEvent
                 /\ UNCHANGED <<mode, cursor_speed, dragging>>
    ELSE IF IsMedium(blink_duration)
    THEN /\ last_op' = "blink_medium"
         /\ IF MediumClickMode
            THEN /\ acts' = <<"rightClick">>
                 /\ ret' = "right_click"
                 /\ UNCHANGED <<mode, cursor_speed, dragging>>
            ELSE /\ acts' = <<>>
                 /\ ret' = NoEvent
                 /\ UNCHANGED <<mode, cursor_speed, dragging>>
    ELSE /\ last_op' = "blink_long"
         /\ switch_mode
         /\ acts' = <<>>
         /\ ret' = ModeSwitchEvent(mode')
         /\ UNCHANGED dragging

\* self.handle_blink(left_ear, right_ear), called dt after the last clock reading
handle_blink(left_ear, right_ear, dt) ==
    LET current_time == now + dt
        avg_ear == AvgEar(left_ear, right_ear)
    IN /\ now' = current_time
       /\ frames' = frames + 1
       /\ is_blink' = IsBlink(avg_ear)
       /\ IF UsesRelativeMode
          THEN /\ ear_history' = Some(AppendHistory(ear_history, avg_ear))
               /\ ear_log' = Append(ear_log, avg_ear)
          ELSE UNCHANGED <<ear_history, ear_log>>
       /\ IF IsBlink(avg_ear) /\ blink_start_time = None
          THEN /\ blink_start_time' = Some(current_time)
               /\ ret' = NoEvent
               /\ acts' = <<>>
               /\ last_op' = "blink_start"
               /\ UNCHANGED <<last_blink_time, mode, cursor_speed, dragging>>
          ELSE IF ~IsBlink(avg_ear) /\ blink_start_time # None
          THEN /\ blink_start_time' = None
               /\ IF CooldownOver(current_time)
                  THEN /\ last_blink_time' = current_time
                       /\ AcceptBlink(current_time - blink_start_time[1])
                  ELSE /\ ret' = NoEvent
                       /\ acts' = <<>>
                       /\ last_op' = "blink_suppressed"
                       /\ UNCHANGED <<last_blink_time, mode, cursor_speed, dragging>>
          ELSE /\ ret' = NoEvent
               /\ acts' = <<>>
               /\ last_op' = "blink_none"
               /\ UNCHANGED <<blink_start_time, last_blink_time, mode, cursor_speed,
                              dragging>>

\* -------------------------------------------------------- exact fractions

Abs(a) == IF a < 0 THEN -a ELSE a

RECURSIVE GCD(_, _)
GCD(a, b) == IF b = 0 THEN a ELSE GCD(b, a % b)

\* A fraction in lowest terms.
Norm(q) == LET g == GCD(Abs(q[1]), q[2]) IN <<q[1] \div g, q[2] \div g>>

\* A whole number as a fraction.
Frac(n) == <<n, 1>>

\* p * q, p + q, p - q and p < q
RMul(p, q) == Norm(<<p[1] * q[1], p[2] * q[2]>>)

RAdd(p, q) == Norm(<<p[1] * q[2] + q[1] * p[2], p[2] * q[2]>>)

RSub(p, q) == Norm(<<p[1] * q[2] - q[1] * p[2], p[2] * q[2]>>)

RLess(p, q) == p[1] * q[2] < q[1] * p[2]

\* min(p, q) and max(p, q)
RMin(p, q) == IF RLess(q, p) THEN q ELSE p

RMax(p, q) == IF RLess(p, q) THEN q ELSE p

\* int(q): the fraction cut towards zero
Trunc(q) == IF q[1] >= 0 THEN q[1] \div q[2] ELSE -((-q[1]) \div q[2])

\* -------------------------------------------------------- smooth_movement

\* edge_distance: the smaller of min(x_pred, screen_width - x_pred) /
\* (screen_width / 2) and the same for y
EdgeDistance(xp, yp) ==
    LET edge_x == RMin(xp, <<ScreenWidth * xp[2] - xp[1], xp[2]>>)
        edge_y == RMin(yp, <<ScreenHeight * yp[2] - yp[1], yp[2]>>)
        edge_distance_x == <<2 * edge_x[1], ScreenWidth * edge_x[2]>>
        edge_distance_y == <<2 * edge_y[1], ScreenHeight * edge_y[2]>>
    IN RMin(edge_distance_x, edge_distance_y)

\* adjusted_smoothing = self.smoothing_factor * edge_distance
AdjustedSmoothing(xp, yp) == RMul(<<SmoothingFactor, 100>>, EdgeDistance(xp, yp))

\* prev * adjusted_smoothing + raw * (1 - adjusted_smoothing)
Blend(prev, raw, a) ==
    Norm(<<prev[1] * a[1] * raw[2] + raw[1] * (a[2] - a[1]) * prev[2],
           prev[2] * a[2] * raw[2]>>)

\* The raw prediction on every call, the previous position unused.
smooth_movement_raw(xp, yp) == <<xp, yp>>

\* self.smooth_movement(x_pred, y_pred): (smooth_x, smooth_y), which is
\* the raw prediction on the first call
smooth_movement(xp, yp) ==
    IF prev_x = None THEN <<xp, yp>>
    ELSE LET adjusted_smoothing == AdjustedSmoothing(xp, yp)
         IN <<Blend(prev_x[1], xp, adjusted_smoothing),
              Blend(prev_y[1], yp, adjusted_smoothing)>>

\* max(0, min(x_smooth, self.screen_width - 1)), and the same for y
ClampX(v) == RMax(Frac(0), RMin(v, Frac(ScreenWidth - 1)))

ClampY(v) == RMax(Frac(0), RMin(v, Frac(ScreenHeight - 1)))

\* ---------------------------------------------------------- handle_scroll

\* The scroll branch taken in every mode.
ScrollActiveAlways(m) == TRUE

\* if self.mode == "scroll"
ScrollActive(m) == m = "scroll"

\* normalized_y = y_position / self.screen_height
NormalizedY(y_position) == <<y_position[1], ScreenHeight * y_position[2]>>

\* 0.5 - center_region/2
DeadzoneTop == <<50 - CenterRegion \div 2, 100>>

\* 0.5 + center_region/2
DeadzoneBottom == <<50 + CenterRegion \div 2, 100>>

\* int(20 * distance_from_center * scroll_speed_factor), upwards
ScrollUpAmount(normalized_y) ==
    Trunc(RMul(RMul(Frac(ScrollGain), RSub(DeadzoneTop, normalized_y)),
               <<ScrollSpeedFactor, 100>>))

\* int(-20 * distance_from_center * scroll_speed_factor), downwards
ScrollDownAmount(normalized_y) ==
    Trunc(RMul(RMul(Frac(-ScrollGain), RSub(normalized_y, DeadzoneBottom)),
               <<ScrollSpeedFactor, 100>>))

\* The amounts self.handle_scroll(y_position) passes to pyautogui.scroll in
\* mode m: one amount in the two branches outside the center region.
ScrollCalls(m, y_position) ==
    IF ~ScrollActive(m) THEN <<>>
    ELSE LET normalized_y == NormalizedY(y_position)
         IN IF RLess(normalized_y, DeadzoneTop)
            THEN <<ScrollUpAmount(normalized_y)>>
            ELSE IF RLess(DeadzoneBottom, normalized_y)
            THEN <<ScrollDownAmount(normalized_y)>>
            ELSE <<>>

\* What self.handle_scroll(y_position) returns, given what it passed on.
ScrollReturn(scrolled) == IF scrolled = <<>> THEN 0 ELSE scrolled[1]

\* The part of a frame from the prediction (xp, yp) to the cursor move:
\* smooth_movement, which keeps what it returns, clamping to the screen,
\* pyautogui.moveTo.
MoveCursor(xp, yp) ==
    LET smooth == smooth_movement(Frac(xp), Frac(yp))
    IN /\ x_pred' = Some(xp)
       /\ y_pred' = Some(yp)
       /\ prev_x' = Some(smooth[1])
       /\ prev_y' = Some(smooth[2])
       /\ moved' = Some(<<ClampX(smooth[1]), ClampY(smooth[2])>>)

\* The end of a frame: self.handle_scroll(y_smooth), in the mode that
\* handle_blink left.
Scroll ==
    LET scrolled == ScrollCalls(mode', moved'[1][2])
    IN /\ scroll_calls' = scrolled
       /\ scroll_ret' = Some(ScrollReturn(scrolled))

\* A step that is not a frame: no cursor move, no scroll, the smoothing
\* state as it was.
NoGaze ==
    /\ x_pred' = None
    /\ y_pred' = None
    /\ moved' = None
    /\ scroll_ret' = None
    /\ scroll_calls' = <<>>
    /\ UNCHANGED <<prev_x, prev_y>>

\* -------------------------------------------------------------- calibrate

\* len(self.calibration_points): the grid cut to num_points
TargetCount(num_points) == IF num_points < GridPoints THEN num_points ELSE GridPoints

\* The calibration set accepted one sample short.
EnoughSamplesFive(n) == n >= MinCalibrationSamples - 1

\* if len(self.calibration_data) >= 6
EnoughSamples(n) == n >= MinCalibrationSamples

\* What calibrate returns: the camera opened, and the set is large enough.
CalibrateResult(base, camera_ok, accepted) ==
    camera_ok /\ EnoughSamples(base + accepted)

\* A regressor or the scaler as the k-th fit, on n samples, leaves it.
Fit(k, n) == Some(<<k, n>>)

\* The scaler fit on the samples before their number is tested.
FailedFitScalerRefit(k, n) == Fit(k, n)

\* The else branch of the fit: self.scaler stays as it is.
FailedFitScaler(k, n) == scaler

\* The end of calibrate on a calibration set of n samples: the scaler and
\* both regressors are fit on it, or nothing is and False is returned.
fit_models(n) ==
    IF EnoughSamples(n)
    THEN /\ fits' = fits + 1
         /\ scaler' = Fit(fits + 1, n)
         /\ model_x' = Fit(fits + 1, n)
         /\ model_y' = Fit(fits + 1, n)
         /\ call_ret' = Some(TRUE)
    ELSE /\ scaler' = FailedFitScaler(fits + 1, n)
         /\ UNCHANGED <<model_x, model_y, fits>>
         /\ call_ret' = Some(FALSE)

\* self.calibrate(num_points) on a calibration set of `base` samples:
\* camera_ok is what start_camera returns and `accepted` the number of
\* targets that collected enough frames.  The sleeps of a target add up to
\* 6 s at least, after 2 s at the start.
calibrate(num_points, base, camera_ok, accepted) ==
    IF ~camera_ok
    THEN /\ cap_open' = FALSE
         /\ calibration_data' = base
         /\ acts' = <<>>
         /\ call_ret' = Some(FALSE)
         /\ UNCHANGED <<now, gaze_model, calibration_points>>
    ELSE /\ cap_open' = TRUE
         /\ calibration_points' = TargetCount(num_points)
         /\ calibration_data' = base + accepted
         /\ acts' = [i \in 1..TargetCount(num_points) |-> "moveTo"]
         /\ now' = now + 200 + 600 * TargetCount(num_points)
         /\ fit_models(base + accepted)

\* ------------------------------------------------ the targets of calibrate

\* The factors of x_points and y_points, in hundredths: 0.1 to 0.9 and 0.95.
PointShares == <<10, 20, 30, 40, 50, 60, 70, 80, 90, 95>>

\* x_points, in hundredths of a pixel: self.screen_width times each factor
x_points(w) == [i \in 1..Len(PointShares) |-> w * PointShares[i]]

\* y_points, in hundredths of a pixel: self.screen_height times each factor
\* but the last entry, which is self.screen_width * 0.95
y_points(w, h) ==
    [i \in 1..Len(PointShares) |->
        IF i < Len(PointShares) THEN h * PointShares[i] ELSE w * PointShares[i]]

\* int(v) of a number of hundredths that is not negative
IntOfHundredths(v) == v \div 100

\* for y in y_points: if len(self.calibration_points) < num_points:
\* self.calibration_points.append((int(x), int(y))), from the j-th y on
RECURSIVE AppendColumn(_, _, _, _, _)
AppendColumn(acc, x, ys, j, n) ==
    IF j > Len(ys) THEN acc
    ELSE IF Len(acc) < n
         THEN AppendColumn(Append(acc, <<IntOfHundredths(x), IntOfHundredths(ys[j])>>),
                           x, ys, j + 1, n)
         ELSE AppendColumn(acc, x, ys, j + 1, n)

\* for x in x_points: the loop over y_points, from the i-th x on
RECURSIVE AppendPoints(_, _, _, _, _)
AppendPoints(acc, xs, ys, i, n) ==
    IF i > Len(xs) THEN acc
    ELSE AppendPoints(AppendColumn(acc, xs[i], ys, 1, n), xs, ys, i + 1, n)

\* self.calibration_points after the two loops
CalibrationPoints(w, h, n) == AppendPoints(<<>>, x_points(w), y_points(w, h), 1, n)

\* calibrate(n) up to its loop over the targets: the list is built.
BuildTargets(n) ==
    /\ phase = "setup"
    /\ requested = None
    /\ requested' = Some(n)
    /\ targets' = CalibrationPoints(screen[1], screen[2], n)
    /\ visited' = 0
    /\ acts' = <<>>
    /\ last_op' = "build_targets"
    /\ UNCHANGED <<phase, now, mode, cursor_speed, blink_params, blink_state, ret,
                   calib_state, profile, call_ret, calls, gaze_state, target_state,
                   feature_state, screen>>

\* One pass of for point_idx, (x, y) in enumerate(self.calibration_points):
\* pyautogui.moveTo(x, y) on the next target of the list.
VisitTarget ==
    /\ requested # None
    /\ visited < Len(targets)
    /\ visited' = visited + 1
    /\ acts' = <<"moveTo">>
    /\ last_op' = "visit_target"
    /\ UNCHANGED <<phase, now, mode, cursor_speed, blink_params, blink_state, ret,
                   calib_state, profile, call_ret, calls, gaze_state, target_state,
                   feature_state, screen, requested, targets>>

\* ------------------------------------------- calibrate, target by target

\* Column d of the collected feature vectors.
Column(pd, d) == [i \in 1..Len(pd) |-> pd[i][d]]

\* np.median of a column, doubled: the middle value, or the sum of the two
\* middle values of an even number.
DoubledMedian(col) ==
    LET n == Len(col)
    IN IF n % 2 = 1
       THEN 2 * KthSmallest(col, (n + 1) \div 2)
       ELSE KthSmallest(col, n \div 2) + KthSmallest(col, n \div 2 + 1)

\* The doubled medians of the first d columns.
RECURSIVE MediansUpTo(_, _)
MediansUpTo(pd, d) ==
    IF d = 0 THEN <<>>
    ELSE Append(MediansUpTo(pd, d - 1), DoubledMedian(Column(pd, d)))

\* median_features = np.median(point_data, axis=0), doubled
MedianFeatures(pd) == MediansUpTo(pd, FeatureDims)

RECURSIVE SumSquares(_, _, _)
SumSquares(f, m, d) ==
    IF d = 0 THEN 0
    ELSE (2 * f[d] - m[d]) * (2 * f[d] - m[d]) + SumSquares(f, m, d - 1)

\* distances = np.sum((point_data - median_features)**2, axis=1), times 4
Distances(pd) ==
    LET median_features == MedianFeatures(pd)
    IN [i \in 1..Len(pd) |-> SumSquares(pd[i], median_features, FeatureDims)]

\* The kept share at nine tenths.
KeepCountNineTenths(n) == (n * 9) \div 10

\* int(len(distances) * 0.8)
KeepCount(n) == (n * 8) \div 10

\* np.argsort(dist)[:k] as a set: the indices nearer than the k-th
\* smallest distance, and as many of those at that distance as make k.
\* Among equal distances the order of the sort decides, and any order is
\* allowed for.
ArgsortPrefixes(dist, k) ==
    IF k = 0 THEN {{}}
    ELSE LET edge == KthSmallest(dist, k)
             nearer == {i \in 1..Len(dist) : dist[i] < edge}
             level == {i \in 1..Len(dist) : dist[i] = edge}
         IN {nearer \cup T : T \in {U \in SUBSET level :
                                       Cardinality(U) = k - Cardinality(nearer)}}

\* A target accepted with exactly the minimum of frames.
EnoughFramesInclusive(n) == n >= MinPointFrames

\* if len(point_data) > 10
EnoughFrames(n) == n > MinPointFrames

\* The sets the sort may keep of a target's point_data: none of a target
\* that failed.
KeepChoices(pd) ==
    IF EnoughFrames(Len(pd))
    THEN ArgsortPrefixes(Distances(pd), KeepCount(Len(pd)))
    ELSE {{}}

RECURSIVE SumOver(_, _, _)
SumOver(pd, S, d) ==
    IF S = {} THEN 0
    ELSE LET i == CHOOSE j \in S : TRUE
         IN pd[i][d] + SumOver(pd, S \ {i}, d)

\* avg_features = np.mean(point_data[keep_indices], axis=0)
AvgFeatures(pd, S) ==
    <<[d \in 1..FeatureDims |-> SumOver(pd, S, d)], Cardinality(S)>>

\* The start of self.calibrate(num_points): the camera, the target list,
\* the sleep of 2 s.
calibrate_begin(num_points, camera_ok) ==
    IF ~camera_ok
    THEN /\ cap_open' = FALSE
         /\ call_ret' = Some(FALSE)
         /\ UNCHANGED <<now, calibration_points, cal_pc, point_idx>>
    ELSE /\ cap_open' = TRUE
         /\ calibration_points' = TargetCount(num_points)
         /\ now' = now + 200
         /\ cal_pc' = "targets"
         /\ point_idx' = 0
         /\ call_ret' = None

\* if results.multi_face_landmarks, for a frame <<landmarks found, features>>
HasLandmarks(fr) == fr[1]

\* The features of every frame, a vector of zeros for a frame without
\* landmarks.
SampledAll(fs) ==
    [i \in 1..Len(fs) |-> IF fs[i][1] THEN fs[i][2] ELSE [d \in 1..FeatureDims |-> 0]]

\* point_data after the sampling loop read the frames fs: a frame without
\* landmarks is passed over (if not results.multi_face_landmarks:
\* continue), the features of every other frame are appended.
Sampled(fs) ==
    LET faces == SelectSeq(fs, HasLandmarks)
    IN [i \in 1..Len(faces) |-> faces[i][2]]

\* What one pass of the loop over the targets works out from the frames fs
\* of its sampling, S being the set the sort keeps: the frames, point_data,
\* distances, keep_indices and the appended avg_features.
TargetPass(fs, S) ==
    LET pd == Sampled(fs)
    IN IF EnoughFrames(Len(pd))
       THEN <<fs, pd, Distances(pd), S, Some(AvgFeatures(pd, S))>>
       ELSE <<fs, pd, <<>>, {}, None>>

\* One pass of the loop over the targets: the cursor is moved to the target,
\* 3 s of countdown, 3 s of sampling, then the sample is appended or the
\* target is reported failed.
calibrate_target(pass) ==
    /\ acts' = <<"moveTo">>
    /\ cam_frames' = pass[1]
    /\ point_data' = pass[2]
    /\ distances' = pass[3]
    /\ keep_indices' = pass[4]
    /\ last_sample' = pass[5]
    /\ point_idx' = point_idx + 1
    /\ cal_pc' = IF point_idx + 1 = calibration_points THEN "fit" ELSE "targets"
    /\ IF EnoughFrames(Len(pass[2]))
       THEN /\ calibration_data' = calibration_data + 1
            /\ now' = now + 630
       ELSE /\ calibration_data' = calibration_data
            /\ now' = now + 700

\* ------------------------------------------------ save_models, load_models

\* What save_models returns: if self.model_x and self.model_y
SaveResult == model_x # None /\ model_y # None

\* self.save_models(): the three files are written when both regressors
\* are set, and nothing is otherwise.
save_models ==
    IF SaveResult
    THEN /\ file_x' = Some(model_x)
         /\ file_y' = Some(model_y)
         /\ file_scaler' = Some(scaler)
         /\ UNCHANGED file_blink
    ELSE UNCHANGED profile

\* The dictionary save_blink_calibration writes for these three values of
\* blink_threshold, blink_relative_mode and blink_relative_threshold; an
\* attribute that is not set is written as its default.
BlinkCalibrationData(threshold, relative_mode, relative_threshold) ==
    <<threshold,
      IF relative_mode = Unset THEN FALSE ELSE relative_mode[1],
      IF relative_mode = Unset THEN <<1, 5>> ELSE relative_threshold>>

\* What load_models returns: no joblib.load raised FileNotFoundError.
LoadResult ==
    file_x # None /\ file_y # None /\ file_scaler # None /\ file_blink # None

\* self.load_models(): the four files are read in order, each value is
\* assigned as soon as it is read, and the first missing file ends the call.
load_models ==
    /\ model_x' = IF file_x # None THEN file_x[1] ELSE model_x
    /\ model_y' = IF file_x # None /\ file_y # None THEN file_y[1] ELSE model_y
    /\ scaler' = IF file_x # None /\ file_y # None /\ file_scaler # None
                 THEN file_scaler[1] ELSE scaler
    /\ IF LoadResult
       THEN /\ blink_threshold' = file_blink[1][1]
            /\ blink_relative_mode' = Some(file_blink[1][2])
            /\ blink_relative_threshold' = file_blink[1][3]
       ELSE UNCHANGED blink_params
    /\ call_ret' = Some(LoadResult)
    /\ UNCHANGED <<fits, profile>>

\* ------------------------------------------------- calibrate_blink_threshold

\* The end of calibrate_blink_threshold once enough data was recorded:
\* avg_baseline and avg_blink_min are the two means, in hundredths.  The
\* parameters are set and save_blink_calibration writes them.
calibrate_blink_threshold(avg_baseline, avg_blink_min) ==
    LET gap == IF avg_baseline >= avg_blink_min
               THEN avg_baseline - avg_blink_min
               ELSE avg_blink_min - avg_baseline
    IN /\ blink_threshold' = avg_baseline + avg_blink_min
       /\ IF gap < 5
          THEN /\ blink_relative_mode' = Some(TRUE)
               /\ blink_relative_threshold' =
                      <<4 * (avg_baseline - avg_blink_min), 5 * avg_baseline>>
          ELSE UNCHANGED <<blink_relative_mode, blink_relative_threshold>>
       /\ file_blink' = Some(BlinkCalibrationData(blink_threshold',
                                 blink_relative_mode', blink_relative_threshold'))
       /\ UNCHANGED <<file_x, file_y, file_scaler>>

\* --------------------------------------------------------------- __main__

\* choice 'c': if tracker.calibrate(): ... else: print("Calibration failed")
MainCalibrate(camera_ok, accepted) ==
    /\ phase = "setup"
    /\ accepted <= TargetCount(GridPoints)
    /\ calibrate(GridPoints, calibration_data, camera_ok, accepted)
    /\ phase' = IF CalibrateResult(calibration_data, camera_ok, accepted)
                THEN "fitted" ELSE "stopped"
    /\ ret' = NoEvent
    /\ last_op' = "calibrate"
    /\ NoGaze
    /\ UNCHANGED <<mode, cursor_speed, blink_params, blink_state, recalibrations,
                   profile, calls, target_state, feature_state, grid_state>>

\* tracker.calibrate_blink_threshold(), between calibrate and save_models
CalibrateBlink(avg_baseline, avg_blink_min) ==
    /\ phase = "fitted"
    /\ phase' = "blink_done"
    /\ calibrate_blink_threshold(avg_baseline, avg_blink_min)
    /\ call_ret' = Some(TRUE)
    /\ acts' = <<>>
    /\ last_op' = "calibrate_blink"
    /\ NoGaze
    /\ UNCHANGED <<now, mode, cursor_speed, blink_state, ret, calib_state, calls,
                   target_state, feature_state, grid_state>>

\* tracker.save_models(), after calibrate_blink_threshold has set the
\* parameters or has returned without setting any
MainSave ==
    /\ phase \in {"fitted", "blink_done"}
    /\ phase' = "saved"
    /\ save_models
    /\ call_ret' = Some(SaveResult)
    /\ acts' = <<>>
    /\ last_op' = "save_models"
    /\ NoGaze
    /\ UNCHANGED <<now, mode, cursor_speed, blink_params, blink_state, ret,
                   calib_state, calls, target_state, feature_state, grid_state>>

\* ------------------------------------------------------------------- run

\* The check of run dropped.
ModelsTrainedAlways == TRUE

\* not (not self.model_x or not self.model_y)
ModelsTrained == model_x # None /\ model_y # None

\* tracker.run() up to the loop: the camera is opened when it is not, and
\* run returns at once when it cannot be opened or no model is fit.
Run(camera_ok) ==
    /\ phase = "saved"
    /\ cap_open' = (cap_open \/ camera_ok)
    /\ phase' = IF (cap_open \/ camera_ok) /\ ModelsTrained THEN "run" ELSE "stopped"
    /\ acts' = <<>>
    /\ last_op' = "run"
    /\ NoGaze
    /\ UNCHANGED <<now, mode, cursor_speed, blink_params, blink_state, ret,
                   calibration_data, calibration_points, gaze_model, recalibrations,
                   profile, call_ret, calls, target_state, feature_state, grid_state>>

\* The number of frames a run takes.
FrameLimit == IF UsesRelativeMode THEN MaxRelFrames ELSE MaxFrames

\* The frames a run may still take, and the narrowed-eye frames among them.
FrameAllowed(avg_ear, ears) ==
    /\ frames < FrameLimit
    /\ UsesRelativeMode =>
           \/ \A e \in ears : AvgEar(e[1], e[2]) <= avg_ear
           \/ Cardinality({i \in 1..Len(ear_log) :
                  \E e \in ears : AvgEar(e[1], e[2]) > ear_log[i]}) < MaxLowFrames

\* One iteration of the loop whose frame was read and has landmarks: a
\* prediction of preds is smoothed and the cursor moved, handle_blink is
\* called with the EARs of one of ears, a time of steps after the last
\* call, and then handle_scroll.
Frame(ears, steps, preds) ==
    /\ phase = "run"
    /\ cap_open
    /\ frames < FrameLimit
    /\ \E g \in preds :
           /\ MoveCursor(g[1], g[2])
           /\ \E e \in ears, dt \in steps :
                  /\ FrameAllowed(AvgEar(e[1], e[2]), ears)
                  /\ handle_blink(e[1], e[2], dt)
                  /\ Scroll
    /\ UNCHANGED <<phase, blink_params, calib_state, profile, call_ret, calls,
                   target_state, feature_state, grid_state>>

\* One iteration of the loop whose frame was read and has no landmarks:
\* the body under if results.multi_face_landmarks is passed over.
NoLandmarksFrame ==
    /\ phase = "run"
    /\ cap_open
    /\ ret' = NoEvent
    /\ acts' = <<>>
    /\ last_op' = "no_landmarks"
    /\ NoGaze
    /\ UNCHANGED <<phase, now, mode, cursor_speed, blink_params, blink_state,
                   calib_state, profile, call_ret, calls, target_state, feature_state, grid_state>>

\* One iteration of the loop whose landmarks give an eye or the face no
\* width: extract_eye_features returns features that are not finite,
\* self.scaler.transform raises ValueError on them, and nothing in run or
\* __main__ catches it.
DegenerateFrame ==
    /\ phase = "run"
    /\ cap_open
    /\ phase' = "crashed"
    /\ ret' = NoEvent
    /\ acts' = <<>>
    /\ last_op' = "degenerate_frame"
    /\ NoGaze
    /\ UNCHANGED <<now, mode, cursor_speed, blink_params, blink_state,
                   calib_state, profile, call_ret, calls, target_state, feature_state, grid_state>>

\* One iteration of the loop whose self.cap.read() gives no frame, as every
\* read of a capture that is not opened does: the message, a sleep of
\* 0.1 s and continue, which passes over the rest of the body and with it
\* the cv2.waitKey that looks for the keys.
FailedRead ==
    /\ phase = "run"
    /\ ~cap_open
    /\ ret' = NoEvent
    /\ acts' = <<>>
    /\ last_op' = "failed_read"
    /\ NoGaze
    /\ UNCHANGED <<phase, now, mode, cursor_speed, blink_params, blink_state,
                   calib_state, profile, call_ret, calls, target_state, feature_state, grid_state>>

\* key == ord('m'): self.switch_mode()
KeyM ==
    /\ phase = "run"
    /\ cap_open
    /\ switch_mode
    /\ ret' = NoEvent
    /\ acts' = <<>>
    /\ last_op' = "key_m"
    /\ NoGaze
    /\ UNCHANGED <<phase, now, blink_params, blink_state, calib_state, profile,
                   call_ret, calls, target_state, feature_state, grid_state>>

\* key == ord('s'): self.mode = "scroll"
KeyS ==
    /\ phase = "run"
    /\ cap_open
    /\ mode' = "scroll"
    /\ ret' = NoEvent
    /\ acts' = <<>>
    /\ last_op' = "key_s"
    /\ NoGaze
    /\ UNCHANGED <<phase, now, cursor_speed, blink_params, blink_state, calib_state,
                   profile, call_ret, calls, target_state, feature_state, grid_state>>

\* key == ord('c'): self.calibrate(9)
KeyC(camera_ok, accepted) ==
    /\ phase = "run"
    /\ cap_open
    /\ recalibrations < MaxRecalibrations
    /\ recalibrations' = recalibrations + 1
    /\ accepted <= TargetCount(9)
    /\ calibrate(9, calibration_data, camera_ok, accepted)
    /\ ret' = NoEvent
    /\ last_op' = "key_c"
    /\ NoGaze
    /\ UNCHANGED <<phase, mode, cursor_speed, blink_params, blink_state, profile,
                   calls, target_state, feature_state, grid_state>>

\* key == ord('f'): the calibration set is emptied, then self.calibrate(16)
\* and, when it returns True, self.save_models()
KeyF(camera_ok, accepted) ==
    /\ phase = "run"
    /\ cap_open
    /\ recalibrations < MaxRecalibrations
    /\ recalibrations' = recalibrations + 1
    /\ accepted <= TargetCount(16)
    /\ calibrate(16, 0, camera_ok, accepted)
    /\ IF CalibrateResult(0, camera_ok, accepted)
       THEN /\ file_x' = Some(model_x')
            /\ file_y' = Some(model_y')
            /\ file_scaler' = Some(scaler')
            /\ UNCHANGED file_blink
       ELSE UNCHANGED profile
    /\ ret' = NoEvent
    /\ last_op' = "key_f"
    /\ NoGaze
    /\ UNCHANGED <<phase, mode, cursor_speed, blink_params, blink_state, calls,
                   target_state, feature_state, grid_state>>

\* key == ord('q'): break; the camera is released and a held button let go
KeyQ ==
    /\ phase = "run"
    /\ cap_open
    /\ phase' = "stopped"
    /\ cap_open' = FALSE
    /\ acts' = IF dragging # Unset /\ dragging[1] THEN <<"mouseUp">> ELSE <<>>
    /\ ret' = NoEvent
    /\ last_op' = "key_q"
    /\ NoGaze
    /\ UNCHANGED <<now, mode, cursor_speed, blink_params, blink_state,
                   calibration_data, calibration_points, gaze_model, recalibrations,
                   profile, call_ret, calls, target_state, feature_state, grid_state>>

\* ------------------------------------------------- the methods, called freely

\* A caller other than __main__ calls the methods of a new EyeTrackerCursor
\* in any order, MaxCalls times at most, and then run.

\* tracker.calibrate(num_points)
CallCalibrate(num_points, camera_ok, accepted) ==
    /\ phase = "setup"
    /\ calls < MaxCalls
    /\ calls' = calls + 1
    /\ accepted <= TargetCount(num_points)
    /\ calibrate(num_points, calibration_data, camera_ok, accepted)
    /\ ret' = NoEvent
    /\ last_op' = "calibrate"
    /\ NoGaze
    /\ UNCHANGED <<phase, mode, cursor_speed, blink_params, blink_state,
                   recalibrations, profile, target_state, feature_state, grid_state>>

\* tracker.calibrate_blink_threshold(), recording enough data
CallCalibrateBlink(avg_baseline, avg_blink_min) ==
    /\ phase = "setup"
    /\ calls < MaxCalls
    /\ calls' = calls + 1
    /\ calibrate_blink_threshold(avg_baseline, avg_blink_min)
    /\ call_ret' = Some(TRUE)
    /\ cap_open' = TRUE
    /\ acts' = <<>>
    /\ last_op' = "calibrate_blink"
    /\ NoGaze
    /\ UNCHANGED <<phase, now, mode, cursor_speed, blink_state, ret,
                   calibration_data, calibration_points, gaze_model, recalibrations,
                   target_state, feature_state, grid_state>>

\* tracker.save_models()
CallSave ==
    /\ phase = "setup"
    /\ calls < MaxCalls
    /\ calls' = calls + 1
    /\ save_models
    /\ call_ret' = Some(SaveResult)
    /\ acts' = <<>>
    /\ last_op' = "save_models"
    /\ NoGaze
    /\ UNCHANGED <<phase, now, mode, cursor_speed, blink_params, blink_state, ret,
                   calib_state, target_state, feature_state, grid_state>>

\* tracker.load_models()
CallLoad ==
    /\ phase = "setup"
    /\ calls < MaxCalls
    /\ calls' = calls + 1
    /\ load_models
    /\ acts' = <<>>
    /\ last_op' = "load_models"
    /\ NoGaze
    /\ UNCHANGED <<phase, now, mode, cursor_speed, blink_state, ret, cap_open,
                   calibration_data, calibration_points, recalibrations,
                   target_state, feature_state, grid_state>>

\* tracker.run() up to the loop, whatever was called before
CallRun(camera_ok) ==
    /\ phase = "setup"
    /\ cal_pc = "idle"
    /\ cap_open' = (cap_open \/ camera_ok)
    /\ phase' = IF (cap_open \/ camera_ok) /\ ModelsTrained THEN "run" ELSE "stopped"
    /\ acts' = <<>>
    /\ last_op' = "run"
    /\ NoGaze
    /\ UNCHANGED <<now, mode, cursor_speed, blink_params, blink_state, ret,
                   calibration_data, calibration_points, gaze_model, recalibrations,
                   profile, call_ret, calls, target_state, feature_state, grid_state>>

\* ---------------------------------------- a calibrate call, target by target

\* The feature vector of frame i of a target: the components repeat with
\* period 3, or climb with i.
PatternSample(pattern, i) ==
    [d \in 1..FeatureDims |->
        IF pattern = "cycle" THEN 10 + ((i * d) % 3) ELSE i * d]

\* A feature vector far from all of those.
OutlierSample == [d \in 1..FeatureDims |-> 90]

\* The point_data of a target that collected n frames, the frame at
\* outlier_at (if any) an outlier.
PointData(n, pattern, outlier_at) ==
    [i \in 1..n |-> IF i = outlier_at THEN OutlierSample ELSE PatternSample(pattern, i)]

\* The numbers of frames a target collects.
PointFrameCounts == {0, MinPointFrames - 1, MinPointFrames, MinPointFrames + 1,
                     MaxPointFrames}

\* The point_data a target may collect.
PointDatas ==
    {PointData(n, pattern, outlier_at) :
        n \in PointFrameCounts, pattern \in {"cycle", "ramp"},
        outlier_at \in {0, 1}}

\* A value that is not finite: a division by a zero width gives inf.
Infinite == 1000

\* The features extract_eye_features returns when an eye or the face has no
\* width: the ratios are not finite.
DegenerateSample == [d \in 1..FeatureDims |-> Infinite]

\* point_data with the frame at `at` taken while a width was zero.
WithDegenerate(pd, at) ==
    [i \in 1..Len(pd) |-> IF i = at THEN DegenerateSample ELSE pd[i]]

\* A frame the detector found no landmarks in.
NoLandmarks == <<FALSE, <<>>>>

\* The frames of a sampling that gave the features pd, `missing` frames
\* without landmarks after the first.
FrameSeq(pd, missing) ==
    LET faces == [i \in 1..Len(pd) |-> <<TRUE, pd[i]>>]
        gaps == [i \in 1..missing |-> NoLandmarks]
    IN IF Len(pd) = 0 THEN gaps
       ELSE SubSeq(faces, 1, 1) \o gaps \o SubSeq(faces, 2, Len(pd))

\* The frames a sampling may read: every frame with landmarks, some
\* without, or one taken while a width was zero.
FrameSeqs ==
    {FrameSeq(pd, 0) : pd \in PointDatas}
        \cup {FrameSeq(PointData(n, "ramp", 0), MaxMissingFrames) :
                  n \in PointFrameCounts}
        \cup {FrameSeq(WithDegenerate(PointData(n, "ramp", 0), 2), 0) :
                  n \in PointFrameCounts \ {0}}

\* The passes over a target those frames allow.
TargetPasses ==
    UNION {{TargetPass(fs, S) : S \in KeepChoices(Sampled(fs))} : fs \in FrameSeqs}

\* tracker.calibrate(9) entered
CalibrateBegin(camera_ok) ==
    /\ phase = "setup"
    /\ cal_pc = "idle"
    /\ calls < MaxFollowedCalls
    /\ calls' = calls + 1
    /\ calibrate_begin(9, camera_ok)
    /\ acts' = <<>>
    /\ ret' = NoEvent
    /\ last_op' = "calibrate_begin"
    /\ NoGaze
    /\ UNCHANGED <<phase, mode, cursor_speed, blink_params, blink_state,
                   calibration_data, gaze_model, recalibrations, profile,
                   point_data, distances, keep_indices, last_sample,
                   cam_frames, feature_state, grid_state>>

\* the next target of that call
CalibrateTarget(pass) ==
    /\ cal_pc = "targets"
    /\ calibrate_target(pass)
    /\ ret' = NoEvent
    /\ last_op' = "calibrate_target"
    /\ NoGaze
    /\ UNCHANGED <<phase, mode, cursor_speed, blink_params, blink_state, cap_open,
                   calibration_points, gaze_model, recalibrations, profile,
                   call_ret, calls, feature_state, grid_state>>

\* the end of that call, after the last target
CalibrateFit ==
    /\ cal_pc = "fit"
    /\ cal_pc' = "idle"
    /\ fit_models(calibration_data)
    /\ acts' = <<>>
    /\ ret' = NoEvent
    /\ last_op' = "calibrate"
    /\ NoGaze
    /\ UNCHANGED <<phase, now, mode, cursor_speed, blink_params, blink_state,
                   cap_open, calibration_data, calibration_points, recalibrations,
                   profile, calls, point_idx, point_data, distances, keep_indices,
                   last_sample, cam_frames, feature_state, grid_state>>

\* ------------------------------------------------ extract_eye_features

\* The components of the vector extract_eye_features returns, in the order
\* of its np.concatenate.
FeatureOrder ==
    <<"left_eye_center_x", "left_eye_center_y",
      "right_eye_center_x", "right_eye_center_y",
      "left_iris_x", "left_iris_y",
      "right_iris_x", "right_iris_y",
      "left_ear", "right_ear",
      "left_iris_to_corner", "right_iris_to_corner",
      "nose_tip_x", "nose_tip_y",
      "chin_x", "chin_y",
      "head_pitch", "head_yaw",
      "left_iris_rel_x", "right_iris_rel_x",
      "face_width">>

FeatureNames == {FeatureOrder[i] : i \in 1..Len(FeatureOrder)}

\* The vector for the measurements m of a frame, m[name] being the value
\* worked out for the component `name`.
extract_eye_features(m) == [i \in 1..Len(FeatureOrder) |-> m[FeatureOrder[i]]]

\* seq[k] as Python reads it: from 0, and from the end when k is negative.
PyIndex(seq, k) == IF k < 0 THEN seq[Len(seq) + k + 1] ELSE seq[k + 1]

\* left_ear = features[-6]; right_ear = features[-5]
EarIndexLeft == -6

EarIndexRight == -5

\* The measurements of a frame, in hundredths: the two EARs, the y of the
\* chin and the pitch of the head vary, every other component is 50.
Measurements ==
    {[n \in FeatureNames |->
         CASE n = "left_ear" -> l
           [] n = "right_ear" -> r
           [] n = "chin_y" -> c
           [] n = "head_pitch" -> h
           [] OTHER -> 50] :
        l \in {5, 25, 30}, r \in {5, 25, 30}, c \in {60, 70, 80},
        h \in {140, 150, 160}}

\* The loop of run, or one of the two loops of calibrate_blink_threshold,
\* takes the features of a frame and reads left_ear and right_ear from
\* them.
ReadEars(m, reader) ==
    /\ features' = extract_eye_features(m)
    /\ ear_args' = Some(<<PyIndex(features', EarIndexLeft),
                          PyIndex(features', EarIndexRight)>>)
    /\ last_op' = reader
    /\ UNCHANGED <<phase, now, mode, cursor_speed, blink_params, blink_state, ret,
                   acts, calib_state, profile, call_ret, calls, gaze_state,
                   target_state, grid_state>>

\* ------------------------------------------------------- specifications

\* EyeTrackerCursor.__init__
InitObject ==
    /\ phase = "setup"
    /\ now = 0
    /\ mode = "cursor"
    /\ cursor_speed = 5
    /\ blink_threshold = 2 * BlinkThresholdInit
    /\ blink_relative_mode = Unset
    /\ blink_relative_threshold = <<0, 1>>
    /\ ear_history = Unset
    /\ blink_start_time = None
    /\ last_blink_time = 0
    /\ dragging = Unset
    /\ is_blink = FALSE
    /\ ret = NoEvent
    /\ acts = <<>>
    /\ frames = 0
    /\ ear_log = <<>>
    /\ cap_open = FALSE
    /\ calibration_data = 0
    /\ calibration_points = 0
    /\ model_x = None
    /\ model_y = None
    /\ scaler = None
    /\ fits = 0
    /\ recalibrations = 0
    /\ last_op = "init"
    /\ call_ret = None
    /\ calls = 0
    /\ prev_x = None
    /\ prev_y = None
    /\ x_pred = None
    /\ y_pred = None
    /\ moved = None
    /\ scroll_ret = None
    /\ scroll_calls = <<>>
    /\ cal_pc = "idle"
    /\ point_idx = 0
    /\ point_data = <<>>
    /\ distances = <<>>
    /\ keep_indices = {}
    /\ last_sample = None
    /\ cam_frames = <<>>
    /\ features = <<>>
    /\ ear_args = None
    /\ requested = None
    /\ targets = <<>>
    /\ visited = 0

\* A new EyeTrackerCursor, the profile directory empty.
Init ==
    /\ InitObject
    /\ screen = <<ScreenWidth, ScreenHeight>>
    /\ file_x = None
    /\ file_y = None
    /\ file_scaler = None
    /\ file_blink = None

\* The start of the program up to the loop of run.
Startup(calibrations) ==
    \/ \E camera_ok \in BOOLEAN, accepted \in AcceptedCounts :
           MainCalibrate(camera_ok, accepted)
    \/ \E c \in calibrations : CalibrateBlink(c[1], c[2])
    \/ MainSave
    \/ \E camera_ok \in BOOLEAN : Run(camera_ok)

\* The blink machine in absolute mode, with the keys that change the mode.
Next ==
    \/ Startup(AbsCalibrations)
    \/ Frame(EarPairs, TimeSteps, {ScreenCenter})
    \/ KeyM
    \/ KeyS
    \/ KeyQ

Spec == Init /\ [][Next]_vars

\* The blink machine in relative mode.
NextRel ==
    \/ Startup(RelCalibrations)
    \/ Frame(RelEarPairs, RelTimeSteps, {ScreenCenter})

SpecRel == Init /\ [][NextRel]_vars

\* The loop of run with every key it handles.
NextRun ==
    \/ Startup(AbsCalibrations)
    \/ Frame(EarPairs, RunTimeSteps, {ScreenCenter})
    \/ KeyM
    \/ KeyS
    \/ \E camera_ok \in BOOLEAN, accepted \in AcceptedCounts : KeyC(camera_ok, accepted)
    \/ \E camera_ok \in BOOLEAN, accepted \in AcceptedCounts : KeyF(camera_ok, accepted)
    \/ KeyQ

SpecRun == Init /\ [][NextRun]_vars

\* A new EyeTrackerCursor on a profile directory in any of the states an
\* earlier session leaves it in.
InitApi ==
    /\ InitObject
    /\ screen = <<ScreenWidth, ScreenHeight>>
    /\ \E p \in Profiles :
           /\ file_x = p[1]
           /\ file_y = p[2]
           /\ file_scaler = p[3]
           /\ file_blink = p[4]

\* The methods called freely, then the loop of run with the keys that
\* calibrate again.
NextApi ==
    \/ \E camera_ok \in BOOLEAN, accepted \in AcceptedCounts :
           CallCalibrate(GridPoints, camera_ok, accepted)
    \/ \E c \in AbsCalibrations : CallCalibrateBlink(c[1], c[2])
    \/ CallSave
    \/ CallLoad
    \/ \E camera_ok \in BOOLEAN : CallRun(camera_ok)
    \/ Frame(OpenEarPairs, RelTimeSteps, {ScreenCenter})
    \/ \E camera_ok \in BOOLEAN, accepted \in AcceptedCounts : KeyC(camera_ok, accepted)
    \/ \E camera_ok \in BOOLEAN, accepted \in AcceptedCounts : KeyF(camera_ok, accepted)
    \/ KeyQ

SpecApi == InitApi /\ [][NextApi]_vars

\* Calls of calibrate(9) followed target by target, then the loop of run
\* on frames of every kind.
NextCal ==
    \/ \E camera_ok \in BOOLEAN : CalibrateBegin(camera_ok)
    \/ \E pass \in TargetPasses : CalibrateTarget(pass)
    \/ CalibrateFit
    \/ \E camera_ok \in BOOLEAN : CallRun(camera_ok)
    \/ Frame(OpenEarPairs, RelTimeSteps, {ScreenCenter})
    \/ NoLandmarksFrame
    \/ DegenerateFrame
    \/ KeyQ

SpecCal == Init /\ [][NextCal]_vars

\* The loop of run with the gaze anywhere the regressors can place it.
NextGaze ==
    \/ Startup(AbsCalibrations)
    \/ Frame(OpenEarPairs, RelTimeSteps, GazePredictions)
    \/ KeyM
    \/ KeyS
    \/ KeyQ

SpecGaze == Init /\ [][NextGaze]_vars

\* The loop of run with the key that calibrates again, on a camera that
\* may fail to open again, while the quit key is held down.
NextLive ==
    \/ Startup(AbsCalibrations)
    \/ Frame(EarPairs, RelTimeSteps, {ScreenCenter})
    \/ NoLandmarksFrame
    \/ \E camera_ok \in BOOLEAN, accepted \in AcceptedCounts : KeyC(camera_ok, accepted)
    \/ FailedRead
    \/ KeyQ

\* The quit key stays pressed: an iteration that gets as far as cv2.waitKey
\* reads it, so the break is taken if it stays possible.
SpecLive == Init /\ [][NextLive]_vars /\ WF_vars(KeyQ)

\* A new EyeTrackerCursor on a screen of any geometry.
InitGrid ==
    /\ InitObject
    /\ screen \in Geometries
    /\ file_x = None
    /\ file_y = None
    /\ file_scaler = None
    /\ file_blink = None

\* The target list of a calibrate call and the walk over it.
NextGrid ==
    \/ \E n \in NumPointsChoices : BuildTargets(n)
    \/ VisitTarget

SpecGrid == InitGrid /\ [][NextGrid]_vars

\* The readers of the feature vector on frames of any measurements.
NextFeat ==
    \E m \in Measurements, reader \in {"run_reads_ears", "blink_calibration_reads_ears"} :
        ReadEars(m, reader)

SpecFeat == Init /\ [][NextFeat]_vars

\* ----------------------------------------------------------------- claims

\* The reading of the clock when the loop of run starts: the first
\* calibration, with all of its targets, is over.
RunStart == 200 + 600 * GridPoints

\* A step that is one call of handle_blink.
HandleBlinkStep == frames' = frames + 1

\* A call of handle_blink that finds a blink in progress and the eyes open.
BlinkEndStep == HandleBlinkStep /\ blink_start_time # None /\ ~is_blink'

\* The duration of the blink such a call ends, and the time since the
\* last accepted blink.
EndedDuration == now' - blink_start_time[1]

EndedElapsed == now' - last_blink_time

\* The cycle cursor -> scroll -> click -> drag -> cursor, written out.
CycleSuccessor(m) ==
    CASE m = "cursor" -> "scroll"
      [] m = "scroll" -> "click"
      [] m = "click" -> "drag"
      [] m = "drag" -> "cursor"

\* The speed constant of each mode, written out.
SpeedConstant(m) ==
    CASE m = "cursor" -> 5
      [] m = "scroll" -> 2
      [] m = "click" -> 4
      [] m = "drag" -> 3

\* The event the blink table gives for a duration d in mode m.
ExpectedEvent(d, m) ==
    IF d < 30
    THEN IF m \in {"cursor", "click"} THEN "click"
         ELSE IF m = "drag" THEN "drag_toggle" ELSE NoEvent
    ELSE IF d < 100
    THEN IF m \in {"cursor", "click"} THEN "right_click" ELSE NoEvent
    ELSE "mode_switch_" \o CycleSuccessor(m)

\* C1: a blink that ends outside the cooldown is classified by its duration
\* d: d < 0.3 s is short (the click class), 0.3 s <= d < 1.0 s is medium (the
\* right_click class), d >= 1.0 s is long (a mode switch).  The class shows
\* in the event returned and in the mode: only a long blink changes it.
C1_DurationClasses ==
    [][(BlinkEndStep /\ EndedElapsed > BlinkCooldown) =>
          /\ EndedDuration < 30 =>
                 /\ mode' = mode
                 /\ ret' \in {"click", "drag_toggle", NoEvent}
                 /\ mode = "cursor" => ret' = "click"
          /\ (30 <= EndedDuration /\ EndedDuration < 100) =>
                 /\ mode' = mode
                 /\ ret' \in {"right_click", NoEvent}
                 /\ mode = "cursor" => ret' = "right_click"
          /\ EndedDuration >= 100 =>
                 /\ mode' = CycleSuccessor(mode)
                 /\ ret' = "mode_switch_" \o mode']_vars

\* C1 witness: in cursor mode the first blink of a run, 0.30 s long, was
\* answered by "right_click".
C1_Witness ==
    /\ last_op = "blink_medium"
    /\ frames = 2
    /\ now = RunStart + 2 + 30
    /\ mode = "cursor"
    /\ ret = "right_click"

C3_OneEventPerCall ==
    [][HandleBlinkStep =>
          /\ Len(acts') <= 1
          /\ (is_blink' /\ blink_start_time = None) =>
                 /\ blink_start_time' = Some(now')
                 /\ ret' = NoEvent
                 /\ acts' = <<>>
          /\ (is_blink' /\ blink_start_time # None) =>
                 /\ blink_start_time' = blink_start_time
                 /\ ret' = NoEvent
                 /\ acts' = <<>>
          /\ (ret' # NoEvent \/ acts' # <<>>) =>
                 (blink_start_time # None /\ ~is_blink')]_vars

\* C3 witness: a call ended a blink in drag mode with one event and one
\* pyautogui call.
C3_Witness ==
    /\ last_op = "blink_short"
    /\ ret = "drag_toggle"
    /\ Len(acts) = 1
    /\ blink_start_time = None

\* A blink end the cooldown lets through.
AcceptedEndStep == BlinkEndStep /\ EndedElapsed > BlinkCooldown

\* The drag flag is set and true.
DragEngaged == dragging # Unset /\ dragging[1]

\* C4: an accepted short blink emits "click" with one click in cursor and
\* click mode; in drag mode it emits "drag_toggle", flips the drag flag and
\* issues mouseDown when drag was not engaged and mouseUp when it was; in
\* scroll mode it emits nothing and issues nothing.
C4_ShortBlink ==
    [][(AcceptedEndStep /\ EndedDuration < 30) =>
          /\ mode' = mode
          /\ mode \in {"cursor", "click"} =>
                 /\ ret' = "click"
                 /\ acts' = <<"click">>
                 /\ dragging' = dragging
          /\ mode = "drag" =>
                 /\ ret' = "drag_toggle"
                 /\ dragging' = Some(~DragEngaged)
                 /\ acts' = <<IF DragEngaged THEN "mouseUp" ELSE "mouseDown">>
          /\ mode = "scroll" =>
                 /\ ret' = NoEvent
                 /\ acts' = <<>>
                 /\ dragging' = dragging]_vars

\* C4 witness: a second short blink in drag mode released the button.
C4_Witness ==
    /\ last_op = "blink_short"
    /\ mode = "drag"
    /\ ret = "drag_toggle"
    /\ dragging = Some(FALSE)
    /\ acts = <<"mouseUp">>

\* C5: an accepted medium blink emits "right_click" with one secondary
\* click in cursor and click mode only; in scroll and drag mode it emits
\* nothing, issues nothing, and leaves the mode and the drag flag alone.
C5_MediumBlink ==
    [][(AcceptedEndStep /\ 30 <= EndedDuration /\ EndedDuration < 100) =>
          /\ mode \in {"cursor", "click"} =>
                 /\ ret' = "right_click"
                 /\ acts' = <<"rightClick">>
          /\ mode \in {"scroll", "drag"} =>
                 /\ ret' = NoEvent
                 /\ acts' = <<>>
          /\ UNCHANGED <<mode, cursor_speed, dragging>>]_vars

\* C5 witness: a 0.99 s blink in drag mode, the button held, passed the
\* cooldown and did nothing.
C5_Witness ==
    /\ last_op = "blink_medium"
    /\ mode = "drag"
    /\ dragging = Some(TRUE)
    /\ last_blink_time = now
    /\ ret = NoEvent
    /\ acts = <<>>

\* C6: an accepted long blink, in any mode, moves the mode one step along
\* the cycle, emits "mode_switch_<m>" for the mode m now active, and issues
\* no pyautogui call.
C6_LongBlink ==
    [][(AcceptedEndStep /\ EndedDuration >= 100) =>
          /\ mode' = CycleSuccessor(mode)
          /\ ret' = "mode_switch_" \o mode'
          /\ acts' = <<>>
          /\ dragging' = dragging]_vars

\* C6 witness: a 1.00 s blink in drag mode wrapped the mode to cursor.
C6_Witness ==
    /\ last_op = "blink_long"
    /\ frames = 2
    /\ now = RunStart + 2 + 100
    /\ mode = "cursor"
    /\ ret = "mode_switch_cursor"

\* The number of values the EAR history holds.
HistorySize == IF ear_history = Unset THEN 0 ELSE Len(ear_history[1])

\* C7: in relative mode is_blink is false on every call that leaves the
\* history with fewer than 10 values, whatever the EAR, so no blink is in
\* progress before the history holds 10.
C7_RelativeWarmup ==
    (UsesRelativeMode /\ HistorySize < 10) =>
        (~is_blink /\ blink_start_time = None /\ ret = NoEvent)

\* C7 witness: the call that brought the history to exactly 10 values
\* signalled a blink and started it.
C7_Witness ==
    /\ UsesRelativeMode
    /\ HistorySize = 10
    /\ last_op = "blink_start"
    /\ is_blink
    /\ blink_start_time = Some(now)

\* C8: in relative mode the history holds at most 30 values, and they are
\* the last min(n, 30) of the n average EARs handed in, in arrival order.
C8_HistoryWindow ==
    UsesRelativeMode =>
        LET n == Len(ear_log)
            k == IF n < 30 THEN n ELSE 30
        IN /\ HistorySize <= 30
           /\ HistorySize = k
           /\ \A i \in 1..k : ear_history[1][i] = ear_log[n - k + i]

\* C8 witness: after 32 calls the two oldest values are gone and the shut
\* eyes of the third call are the oldest value held.
C8_Witness ==
    /\ UsesRelativeMode
    /\ Len(ear_log) = 32
    /\ ear_log[3] = 0
    /\ HistorySize = 30
    /\ ear_history[1][1] = 0

\* Four switch_mode calls in a row, on the mode alone.
FourSwitches(m) == NextMode(NextMode(NextMode(NextMode(m))))

\* A step that calls switch_mode: the key 'm', or a long blink let through.
SwitchModeStep == last_op' = "key_m" \/ last_op' = "blink_long"

\* C9: switch_mode moves the mode to its successor in the cycle cursor ->
\* scroll -> click -> drag -> cursor and sets cursor_speed to the constant
\* of the new mode, which is the mode it returns (the long blink names it
\* in its event); four calls in a row lead back to the mode they started
\* from, with that mode's speed constant.
C9_SwitchMode ==
    /\ [][SwitchModeStep =>
             /\ mode' = CycleSuccessor(mode)
             /\ cursor_speed' = SpeedConstant(mode')
             /\ last_op' = "blink_long" => ret' = "mode_switch_" \o mode']_vars
    /\ [](/\ FourSwitches(mode) = mode
          /\ ModeSpeed(FourSwitches(mode)) = SpeedConstant(mode)
          /\ NextMode(mode) # mode
          /\ NextMode(NextMode(mode)) # mode
          /\ NextMode(NextMode(NextMode(mode))) # mode)

\* C9 witness: the key 'm' called switch_mode in drag mode and the mode
\* wrapped to cursor with the speed 0.05.
C9_Witness ==
    /\ last_op = "key_m"
    /\ mode = "cursor"
    /\ cursor_speed = 5

\* C10 as stated: the mode is always one of the four, and every change of
\* the mode is one step to the cyclic successor of the mode before.
C10_OnlyCycleSteps ==
    /\ [](mode \in {"cursor", "scroll", "click", "drag"})
    /\ [][mode' # mode => mode' = CycleSuccessor(mode)]_vars

\* A step that finishes one calibration target.
TargetStep == point_idx' = point_idx + 1

\* The calibration goes on after a target: to the next target while one is
\* left, to the fit after the last, and calibrate has not returned.
CalibrationGoesOn ==
    /\ cal_pc' = (IF point_idx' < calibration_points THEN "targets" ELSE "fit")
    /\ call_ret' = None
    /\ UNCHANGED <<gaze_model, calibration_points>>

OutlierIndices(pd) == {i \in 1..Len(pd) : pd[i] = OutlierSample}

\* What outlier rejection leaves of the n frames pd: floor(0.8 * n) of
\* them, none farther from the per-dimension median than a frame left
\* out, and their mean as the appended sample.
KeptAsClaimed(pd, dist, kept, sample) ==
    /\ Cardinality(kept) = (4 * Len(pd)) \div 5
    /\ kept \subseteq 1..Len(pd)
    /\ Len(dist) = Len(pd)
    /\ \A i \in kept, j \in (1..Len(pd)) \ kept : dist[i] <= dist[j]
    /\ sample # None
    /\ sample[1][2] = Cardinality(kept)
    /\ \A d \in 1..FeatureDims : sample[1][1][d] = SumOver(pd, kept, d)

CalibrationAttempt ==
    /\ last_op' \in {"calibrate", "key_c", "key_f"}
    /\ cap_open'

\* Both regressors are new, fit together in this step on the calibration
\* set as it is after the step.
FitInThisStep ==
    /\ fits' = fits + 1
    /\ model_x' = Some(<<fits', calibration_data'>>)
    /\ model_y' = Some(<<fits', calibration_data'>>)

\* C13: a calibration attempt fits a model exactly when the calibration set
\* holds at least 6 samples after the targets: with 5 or fewer nothing is
\* fit and calibrate returns False, with 6 or more both regressors are fit
\* and it returns True; and every regressor there is, in every reachable
\* state, was fit on at least 6 samples.
C13_ModelIffSixSamples ==
    /\ [][CalibrationAttempt =>
             /\ calibration_data' >= 6 => (FitInThisStep /\ call_ret' = Some(TRUE))
             /\ calibration_data' <= 5 =>
                    (UNCHANGED <<model_x, model_y, fits>> /\ call_ret' = Some(FALSE))]_vars
    /\ [](/\ model_x # None => model_x[1][2] >= 6
          /\ model_y # None => model_y[1][2] >= 6)

\* C13 witness: the first calibration ended with exactly 6 samples, fit
\* both regressors on them and returned True.
C13_Witness ==
    /\ last_op = "calibrate"
    /\ calibration_data = 6
    /\ fits = 1
    /\ model_x = Some(<<1, 6>>)
    /\ model_y = Some(<<1, 6>>)
    /\ call_ret = Some(TRUE)

\* A step in which calibrate ran and left fewer than 6 samples in the
\* calibration set.
FailedAttempt ==
    /\ last_op' \in {"calibrate", "key_c", "key_f"}
    /\ calibration_data' < 6

\* C14: a calibration attempt that ends with fewer than 6 samples, the
\* attempts of the keys 'c' and 'f' included, returns False and leaves the
\* x-regressor, the y-regressor and the scaler as they were; an attempt
\* made from the run loop leaves the loop running on them.
C14_FailedAttemptKeepsModel ==
    [][FailedAttempt =>
          /\ call_ret' = Some(FALSE)
          /\ UNCHANGED <<model_x, model_y, scaler, fits>>
          /\ (last_op' \in {"key_c", "key_f"} /\ cap_open') =>
                 (phase' = "run" /\ model_x' # None /\ model_y' # None)]_vars

\* C14 witness: the run loop took a frame on the loaded model after the
\* key 'c' or 'f' ended with 5 samples and fit nothing.
C14_Witness ==
    /\ phase = "run"
    /\ recalibrations = 1
    /\ calibration_data = 5
    /\ fits = 0
    /\ model_x = EarlierFit
    /\ model_y = EarlierFit
    /\ scaler = EarlierFit
    /\ moved # None

\* A step that is one call of calibrate or of load_models.
ReplacingCall == last_op' \in {"calibrate", "key_c", "key_f", "load_models"}

\* The three components after the step are one set: fit together in this
\* step, or read together from the three files of the profile.
ReplacedAsAWhole ==
    \/ /\ FitInThisStep
       /\ scaler' = model_x'
    \/ /\ file_x # None /\ file_y # None /\ file_scaler # None
       /\ model_x' = file_x[1]
       /\ model_y' = file_y[1]
       /\ scaler' = file_scaler[1]

\* C15: after a call of calibrate or load_models the x-regressor, the
\* y-regressor and the scaler are all the ones from before the call or all
\* from the same new fit or set of files; a load_models call that returns
\* False leaves them and the blink parameters unchanged.
C15_AtomicReplace ==
    [][ReplacingCall =>
          /\ UNCHANGED <<model_x, model_y, scaler>> \/ ReplacedAsAWhole
          /\ (last_op' = "load_models" /\ call_ret' = Some(FALSE)) =>
                 UNCHANGED <<model_x, model_y, scaler, blink_params>>]_vars

\* A load_models call that follows at once on a save_models call that
\* returned True.
LoadAfterSave ==
    /\ last_op = "save_models"
    /\ call_ret = Some(TRUE)
    /\ last_op' = "load_models"

\* C16: a load_models call that follows a save_models call that returned
\* True returns True and leaves the x-regressor, the y-regressor and the
\* scaler that were saved, whether or not a blink calibration was completed
\* before the save.
C16_SaveLoadRoundTrip ==
    [][LoadAfterSave =>
          /\ call_ret' = Some(TRUE)
          /\ UNCHANGED <<model_x, model_y, scaler>>]_vars

\* No model is fit: one of the regressors is unset.
NoModel == model_x = None \/ model_y = None

\* C17: with no model fit, run returns before its loop with no frame taken
\* and no cursor move, click or scroll issued, and save_models returns
\* False and writes no file; no prediction is computed, and the loop of
\* run is not entered, while a regressor is unset.
C17_NoModelSurfaced ==
    /\ [][NoModel =>
             /\ last_op' = "run" =>
                    /\ phase' = "stopped"
                    /\ frames' = frames
                    /\ acts' = <<>>
                    /\ moved' = None
                    /\ scroll_calls' = <<>>
             /\ last_op' = "save_models" =>
                    (call_ret' = Some(FALSE) /\ UNCHANGED profile)]_vars
    /\ [](NoModel => (phase # "run" /\ x_pred = None /\ y_pred = None))

\* C17 witness: run was called with the camera open and no model fit, and
\* returned without a frame.
C17_Witness ==
    /\ last_op = "run"
    /\ phase = "stopped"
    /\ cap_open
    /\ model_x = None
    /\ model_y = None
    /\ frames = 0
    /\ moved = None

\* A step with a smooth_movement call that is not the first.
LaterSmoothStep == prev_x # None /\ x_pred' # None

\* a <= q <= b, for fractions
RWithin(q, a, b) == ~RLess(q, a) /\ ~RLess(b, q)

\* C18: on every smooth_movement call after the first the edge distance is
\* within [0, 1], the adjusted smoothing within [0, smoothing_factor], and
\* each output coordinate lies between the previous smoothed coordinate and
\* the raw one, for any raw prediction.
C18_SmoothingBounded ==
    [][LaterSmoothStep =>
          /\ RWithin(EdgeDistance(Frac(x_pred'[1]), Frac(y_pred'[1])),
                     Frac(0), Frac(1))
          /\ RWithin(AdjustedSmoothing(Frac(x_pred'[1]), Frac(y_pred'[1])),
                     Frac(0), <<SmoothingFactor, 100>>)
          /\ RWithin(prev_x'[1], RMin(prev_x[1], Frac(x_pred'[1])),
                     RMax(prev_x[1], Frac(x_pred'[1])))
          /\ RWithin(prev_y'[1], RMin(prev_y[1], Frac(y_pred'[1])),
                     RMax(prev_y[1], Frac(y_pred'[1])))]_vars

\* A step in which handle_scroll was called: a frame of the run loop.
ScrollStep == scroll_ret' # None

\* The y_position handle_scroll was called with, as a share of the screen
\* height.
ScrollPosition == <<moved'[1][2][1], ScreenHeight * moved'[1][2][2]>>

\* C19: handle_scroll returns 0 and calls pyautogui.scroll not at all when
\* the mode is not scroll, and in scroll mode when y_position lies within
\* the band from 35% to 65% of the screen height, the mid-height included.
C19_ScrollDeadzone ==
    [][ScrollStep =>
          ((mode' # "scroll" \/ RWithin(ScrollPosition, <<35, 100>>, <<65, 100>>))
               => (scroll_ret' = Some(0) /\ scroll_calls' = <<>>))]_vars

\* C19 witness: a frame in scroll mode with the cursor at mid-height
\* returned 0 and scrolled nothing.
C19_Witness ==
    /\ mode = "scroll"
    /\ moved # None
    /\ moved[1][2] = Frac(ScreenHeight \div 2)
    /\ scroll_ret = Some(0)
    /\ scroll_calls = <<>>

\* C20: in scroll mode handle_scroll returns a strictly positive amount for
\* every y_position above the band from 35% to 65% of the screen height and
\* a strictly negative amount for every y_position below it.
C20_ScrollSign ==
    [][(ScrollStep /\ mode' = "scroll") =>
          /\ RLess(ScrollPosition, <<35, 100>>) => scroll_ret'[1] > 0
          /\ RLess(<<65, 100>>, ScrollPosition) => scroll_ret'[1] < 0]_vars

\* A frame in scroll mode that follows a frame in scroll mode: two
\* handle_scroll calls, the first with y_position moved[1][2] and the
\* second with moved'[1][2].
TwoScrollCalls ==
    /\ scroll_ret # None
    /\ mode = "scroll"
    /\ ScrollStep
    /\ mode' = "scroll"

\* The y_position of the first of the two calls, as a share of the height.
EarlierScrollPosition == <<moved[1][2][1], ScreenHeight * moved[1][2][2]>>

\* C21: of two y_positions in scroll mode on the same side of the band
\* from 35% to 65% of the screen height, the one farther from the band
\* gives the amount of strictly larger magnitude.
C21_ScrollMonotone ==
    [][TwoScrollCalls =>
          /\ (RLess(EarlierScrollPosition, ScrollPosition)
                  /\ RLess(ScrollPosition, <<35, 100>>))
                 => Abs(scroll_ret[1]) > Abs(scroll_ret'[1])
          /\ (RLess(<<65, 100>>, EarlierScrollPosition)
                  /\ RLess(EarlierScrollPosition, ScrollPosition))
                 => Abs(scroll_ret'[1]) > Abs(scroll_ret[1])]_vars

\* The frames with landmarks among the frames fs.
FramesWithLandmarks(fs) == {i \in 1..Len(fs) : fs[i][1]}

\* C22: a frame without landmarks changes no state.  In the loop of run it
\* moves no cursor, steps no blink machine (blink_start_time,
\* last_blink_time, the EAR history unchanged), changes no mode, scrolls
\* nothing and leaves the smoothing state; in the sampling of a calibration
\* target it adds nothing to point_data and does not count against the
\* target, which is accepted whenever more than 10 frames had landmarks.
C22_NoLandmarksNoChange ==
    [][/\ last_op' = "no_landmarks" =>
              /\ UNCHANGED <<mode, cursor_speed, blink_start_time, last_blink_time,
                             ear_history, dragging, frames, prev_x, prev_y>>
              /\ acts' = <<>>
              /\ moved' = None
              /\ scroll_calls' = <<>>
       /\ TargetStep =>
              /\ Len(point_data') = Cardinality(FramesWithLandmarks(cam_frames'))
              /\ \A k \in 1..Len(point_data') :
                     \E i \in FramesWithLandmarks(cam_frames') :
                         point_data'[k] = cam_frames'[i][2]
              /\ Cardinality(FramesWithLandmarks(cam_frames')) >= 11
                     => last_sample' # None]_vars

\* C22 witness: a target whose sampling read 11 frames with landmarks and
\* some without was accepted on the 11.
C22_Witness ==
    /\ last_op = "calibrate_target"
    /\ Len(point_data) = 11
    /\ Len(cam_frames) = 11 + MaxMissingFrames
    /\ Cardinality(FramesWithLandmarks(cam_frames)) = 11
    /\ last_sample # None

\* The entries of point_data that were taken while a width was zero.
DegenerateEntries(pd) == {k \in 1..Len(pd) : pd[k] = DegenerateSample}

\* C23: a frame whose landmarks give an eye or the face a zero width is
\* skipped: the sampling of a calibration target appends no feature vector
\* for it, and in the loop of run it gives no prediction, cursor move,
\* blink-machine step or scroll while the loop goes on.
C23_ZeroWidthSkipped ==
    [][/\ TargetStep => DegenerateEntries(point_data') = {}
       /\ last_op' = "degenerate_frame" =>
              /\ phase' = "run"
              /\ UNCHANGED <<mode, blink_start_time, last_blink_time, ear_history,
                             frames, prev_x, prev_y>>
              /\ acts' = <<>>
              /\ x_pred' = None
              /\ moved' = None
              /\ scroll_calls' = <<>>]_vars

\* C24: the two values read as left EAR and right EAR are the components
\* left_ear and right_ear of the feature vector they are read from.
C24_EarComponents ==
    ear_args # None =>
        \A i \in 1..Len(features) :
            /\ FeatureOrder[i] = "left_ear" => ear_args[1][1] = features[i]
            /\ FeatureOrder[i] = "right_ear" => ear_args[1][2] = features[i]

\* C25: a blink end that emits no event (one inside the cooldown, a short
\* one in scroll mode, a medium one in scroll or drag mode) leaves
\* last_blink_time as it was, so that the cooldown runs from the last
\* event emitted.
C25_CooldownFromLastEvent ==
    [][(BlinkEndStep /\ ret' = NoEvent) =>
          last_blink_time' = last_blink_time]_vars

\* A step in which smooth_movement was called for the first time: no
\* previous position is stored.
FirstSmoothStep == prev_x = None /\ x_pred' # None

\* The position the cursor is moved to is the clamped stored position.
MovedToStored == moved' = Some(<<ClampX(prev_x'[1]), ClampY(prev_y'[1])>>)

\* C26: the first smooth_movement call returns the raw prediction and stores
\* it as the previous position; every later call stores its own output, the
\* blend of the earlier stored position and the raw prediction, and that
\* stored position (not the clamped one) is what the cursor move is cut from.
C26_SmoothStoresOutput ==
    [][/\ FirstSmoothStep =>
            /\ prev_x' = Some(Frac(x_pred'[1]))
            /\ prev_y' = Some(Frac(y_pred'[1]))
            /\ MovedToStored
       /\ LaterSmoothStep =>
            /\ prev_x' = Some(Blend(prev_x[1], Frac(x_pred'[1]),
                    AdjustedSmoothing(Frac(x_pred'[1]), Frac(y_pred'[1]))))
            /\ prev_y' = Some(Blend(prev_y[1], Frac(y_pred'[1]),
                    AdjustedSmoothing(Frac(x_pred'[1]), Frac(y_pred'[1]))))
            /\ MovedToStored]_vars

\* A later call has run whose stored output is neither the raw prediction
\* nor a whole number of pixels.
C26_Witness ==
    /\ x_pred # None
    /\ prev_x # None
    /\ prev_x[1] # Frac(x_pred[1])
    /\ prev_y[1][2] # 1

\* C27: the loop of run is left only by the quit key, with the camera
\* released, and while the quit key stays pressed a running loop always
\* comes to stop with the camera released, whatever the reads of the camera
\* give.
C27_QuitHonoured ==
    /\ [][(phase = "run" /\ phase' # "run") =>
             (last_op' = "key_q" /\ phase' = "stopped" /\ ~cap_open')]_vars
    /\ (phase = "run") ~> (phase = "stopped" /\ ~cap_open)

\* C28: in the loop of run the mouse button is held by the tracker only
\* while the mode is drag; a long blink or a key that takes the mode away
\* from drag leaves no drag engaged.
C28_DragOnlyInDragMode == (phase = "run" /\ DragEngaged) => mode = "drag"

\* The step issued the pyautogui call named a.
Issued(a) == \E i \in 1..Len(acts') : acts'[i] = a

\* C29: mouseDown and mouseUp alternate from a mouseDown on and the drag
\* flag is true exactly when the last of them was a mouseDown: a mouseDown
\* is issued only while the flag is not true and makes it true, a mouseUp
\* only while it is true and makes it not true, the flag changes with no
\* other step, and the step that leaves run by quit leaves no button held.
C29_MouseCallsAlternate ==
    [][/\ Issued("mouseDown") => (~DragEngaged /\ DragEngaged')
       /\ Issued("mouseUp") => (DragEngaged /\ ~DragEngaged')
       /\ (DragEngaged' # DragEngaged) => (Issued("mouseDown") \/ Issued("mouseUp"))
       /\ (phase = "run" /\ phase' = "stopped" /\ DragEngaged) => Issued("mouseUp")]_vars

\* The same without the flag after a mouseUp: the calls alternate and the
\* quit releases a held button.
MouseCallsAlternateOnFlag ==
    [][/\ Issued("mouseDown") => (~DragEngaged /\ DragEngaged')
       /\ Issued("mouseUp") => DragEngaged
       /\ (DragEngaged' # DragEngaged) => (Issued("mouseDown") \/ Issued("mouseUp"))
       /\ (phase = "run" /\ phase' = "stopped" /\ DragEngaged) => Issued("mouseUp")]_vars

\* The target list of the followed calibrate call has min(num_points, 100)
\* entries and the walk is within it.
TargetListCount ==
    requested # None =>
        (Len(targets) = TargetCount(requested[1]) /\ visited <= Len(targets))

\* Target i of the list lies on the screen.
OnScreen(i) ==
    /\ 0 <= targets[i][1] /\ targets[i][1] < screen[1]
    /\ 0 <= targets[i][2] /\ targets[i][2] < screen[2]

\* C30: calibrate(num_points) visits exactly min(num_points, 100) targets,
\* in list order, and every target lies on the screen, 0 <= x < screen_width
\* and 0 <= y < screen_height, on a screen of any geometry.
C30_TargetsOnScreen ==
    /\ TargetListCount
    /\ \A i \in 1..Len(targets) : OnScreen(i)

====
